---------------------------- MODULE Spec2Model ----------------------------
(***************************************************************************)
(* A model of the deck generator: the tolerant cell and header parsers of  *)
(* src/slide2.py, the insight derivation of slide2.process, and the folder *)
(* loop of src/generate_ppt.py.                                            *)
(*                                                                         *)
(* Text is a sequence of one-character strings.  A float is an integer     *)
(* counted in units of 10^-MaxLen (Unit), which is exact for every text    *)
(* the model enumerates; binary rounding of IEEE doubles is not modelled.  *)
(***************************************************************************)
EXTENDS Integers, Sequences, FiniteSets, TLC

VARIABLES
    arg,      \* the argument handed to the function under test
    ret,      \* what the function returned
    fn,       \* which function was applied ("none" before the call)
    root,     \* slides_root: the sub-folders, in sorted name order
    idx,      \* generate: position of the folder being visited
    pc,       \* generate / process: control position
    deck,     \* prs.slides: the slides added so far
    saved,    \* generate: whether prs.save has run
    platform, \* the C library behind date.strftime: "posix" or "windows"
    log       \* generate: the handlers run so far, with the slides each added

vars == <<arg, ret, fn, root, idx, pc, deck, saved, platform, log>>

runVars == <<root, idx, pc, deck, saved, platform, log>>

unitVars == <<arg, ret, fn>>

(***************************************************************************)
(* Bounds                                                                  *)
(***************************************************************************)
\* longest enumerated cell text
MaxLen == 4

\* most pieces concatenated into an enumerated header
MaxPieces == 3

\* most data rows of an enumerated table
MaxRows == 2

\* sub-folders of slides_root in one run of generate
MaxFolders == 3

(***************************************************************************)
(* Characters and Python string primitives                                 *)
(***************************************************************************)
ZERO_WIDTH == "<U+200B>"

DigitChars == <<"0", "1", "2", "3", "4", "5", "6", "7", "8", "9">>

Digits == {DigitChars[i] : i \in 1..10}

UpperChars == <<"A", "B", "C", "D", "E", "F", "G", "H", "I", "J", "K", "L", "M",
                "N", "O", "P", "Q", "R", "S", "T", "U", "V", "W", "X", "Y", "Z">>

LowerChars == <<"a", "b", "c", "d", "e", "f", "g", "h", "i", "j", "k", "l", "m",
                "n", "o", "p", "q", "r", "s", "t", "u", "v", "w", "x", "y", "z">>

\* str.strip() and float() strip these; U+200B is not whitespace in Python
Whitespace == {" ", "\t", "\n", "\r"}

\* the sequence f as a tuple whose elements are evaluated once
AsTuple(f) == f \o <<>>

RECURSIVE Pow10(_)

Pow10(n) == IF n <= 0 THEN 1 ELSE 10 * Pow10(n - 1)

\* one float unit: floats are integers counted in 10^-MaxLen
Unit == Pow10(MaxLen)

\* s.replace(ch, '')
StrRemove(s, ch) == SelectSeq(s, LAMBDA c : c # ch)

\* s.strip()
StrStrip(s) ==
    LET keep == {i \in 1..Len(s) : s[i] \notin Whitespace}
    IN  IF keep = {} THEN <<>>
        ELSE LET lo == CHOOSE i \in keep : \A j \in keep : i <= j
                 hi == CHOOSE i \in keep : \A j \in keep : j <= i
             IN  SubSeq(s, lo, hi)

UpperSet == {UpperChars[i] : i \in 1..26}

\* the lower-case letter of each upper-case letter
LowerOf == [c \in UpperSet |-> LowerChars[CHOOSE i \in 1..26 : UpperChars[i] = c]]

LowerChar(c) == IF c \in UpperSet THEN LowerOf[c] ELSE c

\* s.lower()
StrLower(s) == AsTuple([i \in 1..Len(s) |-> LowerChar(s[i])])

\* k in s
StrContains(s, k) ==
    \E i \in 1..(Len(s) - Len(k) + 1) : SubSeq(s, i, i + Len(k) - 1) = k

DigitVal(c) == (CHOOSE i \in 1..10 : DigitChars[i] = c) - 1

RECURSIVE DigitsVal(_)

\* the value of a run of decimal digits
DigitsVal(ds) ==
    IF ds = <<>> THEN 0
    ELSE 10 * DigitsVal(SubSeq(ds, 1, Len(ds) - 1)) + DigitVal(ds[Len(ds)])

(***************************************************************************)
(* Python's float(text), on texts made of the characters the model uses:   *)
(* surrounding whitespace is dropped, then an optional sign, then digits   *)
(* with at most one '.', and at least one digit.  (No enumerated text      *)
(* holds an exponent, an underscore, "inf" or "nan".)                      *)
(***************************************************************************)
FloatBody(s) ==
    LET t == StrStrip(s)
    IN  IF t # <<>> /\ t[1] \in {"-", "+"} THEN SubSeq(t, 2, Len(t)) ELSE t

FloatNegative(s) ==
    LET t == StrStrip(s) IN t # <<>> /\ t[1] = "-"

\* float(s) does not raise ValueError
FloatValid(s) ==
    LET b == FloatBody(s)
    IN  /\ \A i \in 1..Len(b) : b[i] \in Digits \cup {"."}
        /\ Cardinality({i \in 1..Len(b) : b[i] = "."}) <= 1
        /\ \E i \in 1..Len(b) : b[i] \in Digits

\* float(s), in units, for a valid s
\* the position of the '.' of an unsigned numeral b, or one past its end
DotIndex(b) ==
    IF \E i \in 1..Len(b) : b[i] = "."
    THEN CHOOSE i \in 1..Len(b) : b[i] = "."
    ELSE Len(b) + 1

\* the value, in units, of the integer digits ip and the fraction digits fp
FloatMagnitude(ip, fp) ==
    DigitsVal(ip) * Unit + (DigitsVal(fp) * Unit) \div Pow10(Len(fp))

\* the value, in units, of an unsigned numeral b whose '.' is at dot
FloatUnsigned(b, dot) ==
    FloatMagnitude(SubSeq(b, 1, dot - 1), SubSeq(b, dot + 1, Len(b)))

FloatSigned(negative, mag) == IF negative THEN 0 - mag ELSE mag

FloatValue(s) ==
    FloatSigned(FloatNegative(s), FloatUnsigned(FloatBody(s), DotIndex(FloatBody(s))))

(***************************************************************************)
(* Cells and headers                                                       *)
(***************************************************************************)
\* a missing cell (None / NaN): pd.isna(s) holds
NullCell == [kind |-> "null", n |-> 0, s |-> <<>>]

\* an int or float cell holding n units
NumCell(n) == [kind |-> "num", n |-> n, s |-> <<>>]

\* a str cell
TextCell(s) == [kind |-> "text", n |-> 0, s |-> s]

\* the characters of the enumerated cell texts
Alphabet == {"0", "1", ".", "-", "+", "%", " ", "$", ZERO_WIDTH}

\* the texts the spec and the claims name
txtDollar == <<"$", "1", ",", "2", "3", "4", ".", "5", "0">>

txtNA == <<"N", "/", "A">>

txtTwoDots == <<"1", ".", "2", ".", "3">>

txtInnerMinus == <<"1", "2", "-", "3", "4">>

txtPercent == <<"1", "2", ".", "3", "%">>

txtInnerPercent == <<"1", "%", "2">>

\* "$250" and "-3.0%", as a sheet may hold them
txtCurrency == <<"$", "2", "5", "0">>

txtMinus == <<"-", "3", ".", "0", "%">>

SampleTexts ==
    {txtDollar, txtNA, txtPercent, txtTwoDots, txtInnerMinus, txtInnerPercent,
     <<"%", "5">>}

Texts == UNION {[1..n -> Alphabet] : n \in 0..MaxLen} \cup SampleTexts

Cells == {NullCell} \cup {NumCell(n * Unit) : n \in {-3, 0, 5}}
         \cup {NumCell(Unit \div 2)} \cup {TextCell(s) : s \in Texts}

\* re.sub(r"[^0-9\.-]", "", str(s))
NumericChars(s) == SelectSeq(s, LAMBDA c : c \in Digits \cup {".", "-"})

\* a call's result: a value returned, or an exception propagating out of it
Return(v) == [raised |-> FALSE, v |-> v]

Raise == [raised |-> TRUE, v |-> 0]

\* float(s): ValueError on text that is no number
FloatOf(s) == IF FloatValid(s) THEN Return(FloatValue(s)) ELSE Raise

\* try: r  except Exception: return d
TryExcept(r, d) == IF r.raised THEN Return(d) ELSE r

\* _parse_currency with the try/except around float() left out
ParseCurrencyNoExcept(c) ==
    IF c.kind = "null" THEN Return(0)
    ELSE IF c.kind = "num" THEN Return(c.n)
    ELSE LET cleaned == NumericChars(c.s)
         IN  IF cleaned \notin {<<>>, <<".">>, <<"-">>} THEN FloatOf(cleaned)
             ELSE Return(0)

_parse_currency(c) ==
    IF c.kind = "null" THEN Return(0)
    ELSE IF c.kind = "num" THEN Return(c.n)
    ELSE LET cleaned == NumericChars(c.s)
         IN  TryExcept(IF cleaned \notin {<<>>, <<".">>, <<"-">>}
                       THEN FloatOf(cleaned) ELSE Return(0), 0)

_parse_percent(c) ==
    IF c.kind = "null" THEN Return(0)
    ELSE IF c.kind = "num" THEN Return(c.n)
    ELSE LET txt == StrRemove(StrStrip(StrRemove(c.s, ZERO_WIDTH)), "%")
         IN  TryExcept(FloatOf(txt), 0)

(***************************************************************************)
(* Headers: _clean_header and the column mapping of process                *)
(***************************************************************************)
\* h.strip().replace(ZERO_WIDTH, ''): cleaning in the wrong order
CleanHeaderStripFirst(h) ==
    IF h.kind # "text" THEN Return(h)
    ELSE Return(TextCell(StrRemove(StrStrip(h.s), ZERO_WIDTH)))

_clean_header(h) ==
    IF h.kind # "text" THEN Return(h)
    ELSE Return(TextCell(StrStrip(StrRemove(h.s, ZERO_WIDTH))))

kwCountry == <<"c", "o", "u", "n", "t", "r", "y">>

kwTarget == <<"t", "a", "r", "g", "e", "t">>

kwActual == <<"a", "c", "t", "u", "a", "l">>

kwToAsp == <<"t", "o", " ", "a", "s", "p">>

kwPctToAsp == <<"%", " ", "t", "o", " ", "a", "s", "p">>

kwAsp == <<"a", "s", "p">>

kwYoY == <<"y", "o", "y">>

kwYOY == <<"y", "-", "o", "-", "y">>

Country == TextCell(<<"C", "o", "u", "n", "t", "r", "y">>)

Target == TextCell(<<"T", "a", "r", "g", "e", "t">>)

Actual == TextCell(<<"A", "c", "t", "u", "a", "l">>)

PctToAsp == TextCell(<<"%", " ", "t", "o", " ", "A", "s", "p">>)

YoY == TextCell(<<"Y", "o", "Y">>)

\* the if/elif chain with 'actual' tested before 'target'
ColMapActualFirst(c) ==
    IF c.kind # "text" THEN Raise
    ELSE LET low == StrLower(c.s)
         IN  IF StrContains(low, kwCountry) THEN Return(Country)
             ELSE IF StrContains(low, kwActual) THEN Return(Actual)
             ELSE IF StrContains(low, kwTarget) THEN Return(Target)
             ELSE IF \/ StrContains(low, kwToAsp)
                     \/ StrContains(low, kwPctToAsp)
                     \/ StrContains(low, kwAsp) THEN Return(PctToAsp)
             ELSE IF StrContains(low, kwYoY) \/ StrContains(low, kwYOY)
                  THEN Return(YoY)
             ELSE Return(c)

\* one pass of the col_map loop and the rename: the name column c ends with;
\* c.lower() raises AttributeError on a header that is not a str
ColMap(c) ==
    IF c.kind # "text" THEN Raise
    ELSE LET low == StrLower(c.s)
         IN  IF StrContains(low, kwCountry) THEN Return(Country)
             ELSE IF StrContains(low, kwTarget) THEN Return(Target)
             ELSE IF StrContains(low, kwActual) THEN Return(Actual)
             ELSE IF \/ StrContains(low, kwToAsp)
                     \/ StrContains(low, kwPctToAsp)
                     \/ StrContains(low, kwAsp) THEN Return(PctToAsp)
             ELSE IF StrContains(low, kwYoY) \/ StrContains(low, kwYOY)
                  THEN Return(YoY)
             ELSE Return(c)

\* the pieces enumerated headers are put together from
HeaderPieces ==
    { <<" ">>, <<ZERO_WIDTH>>,
      <<"A", "c", "t", "u", "a", "l">>, <<"A", "C", "T", "U", "A", "L">>,
      <<"a", "c", "t", "u", "a", "l">>,
      <<"T", "a", "r", "g", "e", "t">>, <<"C", "O", "U", "N", "T", "R", "Y">>,
      <<"%", " ", "t", "o", " ", "A", "S", "P">>, <<"Y", "-", "o", "-", "Y">>,
      <<"y", "o", "y">>, <<"S", "a", "l", "e", "s">> }

RECURSIVE Concat(_)

\* ''.join(ps)
Concat(ps) == IF ps = <<>> THEN <<>> ELSE Head(ps) \o Concat(Tail(ps))

HeaderTexts ==
    {Concat(ps) : ps \in UNION {[1..n -> HeaderPieces] : n \in 0..MaxPieces}}

\* a header read from a numeric header cell (an int column label)
NumericHeader == NumCell(2024)

Headers == {TextCell(s) : s \in HeaderTexts} \cup {NumericHeader}

(***************************************************************************)
(* Number formatting                                                       *)
(***************************************************************************)
\* a / b for b > 0, rounded to the nearest integer, halves to the even one
RoundHalfEven(a, b) ==
    LET q == a \div b
        r == a - q * b
    IN  IF 2 * r < b THEN q
        ELSE IF 2 * r > b THEN q + 1
        ELSE IF q % 2 = 0 THEN q ELSE q + 1

\* f"{val:,.0f}": the float val (in units) as a whole number
FormatFixed0(v) == RoundHalfEven(v, Unit)

\* f"{v:.1f}": the float v (in units) in tenths
FormatFixed1(v) == RoundHalfEven(v * 10, Unit)

RECURSIVE Gcd(_, _)

\* the greatest common divisor of a >= 0 and b >= 0
Gcd(a, b) == IF b = 0 THEN a ELSE Gcd(b, a % b)

Abs(a) == IF a < 0 THEN 0 - a ELSE a

\* f"{pct:.1f}" for pct = num / den * 100 (0 when den is 0), in tenths; the
\* quotient is reduced first, which keeps the products small
FormatPct1(num, den) ==
    IF den = 0 THEN 0
    ELSE LET g == Gcd(Abs(num), Abs(den))
             a == (IF den > 0 THEN num ELSE 0 - num) \div g
             b == Abs(den) \div g
         IN  RoundHalfEven(a * 1000, b)

\* _format_currency: a float always formats, the except branch is never taken
_format_currency(v) == [fmt |-> ",.0f", num |-> FormatFixed0(v), raw |-> NullCell]

(***************************************************************************)
(* Tables (data frames) and slides                                         *)
(***************************************************************************)
\* df.columns holds name
HasCol(df, name) == \E i \in 1..Len(df.cols) : df.cols[i] = name

ColIndex(df, name) == CHOOSE i \in 1..Len(df.cols) : df.cols[i] = name

\* df[name], as the floats of a parsed column
ColumnVals(df, name) ==
    LET i == ColIndex(df, name)
    IN  AsTuple([r \in 1..Len(df.rows) |-> df.rows[r][i].n])

RECURSIVE SeqSum(_)

\* Series.sum()
SeqSum(xs) == IF xs = <<>> THEN 0 ELSE Head(xs) + SeqSum(Tail(xs))

\* a value the parsers produced is never NaN: they map a missing cell to 0.0
IsNaN(v) == FALSE

\* Series.isnull().all(): true of an empty column
AllNull(xs) == \A i \in 1..Len(xs) : IsNaN(xs[i])

\* numpy's quicksort hands a range of at most SMALL_QUICKSORT + 1 elements to
\* an insertion sort
SMALL_QUICKSORT == 16

Swap(t, i, j) == [t EXCEPT ![i] = t[j], ![j] = t[i]]

\* if (v[t[i]] < v[t[j]]) swap(t[i], t[j])
SwapIfLess(v, t, i, j) == IF v[t[i]] < v[t[j]] THEN Swap(t, i, j) ELSE t

\* the insertion sort of positions pl..pr of the index array t: ascending by
\* value, equal values in the order they stood in
InsertionSort(v, t, pl, pr) ==
    LET rank(j) == pl + Cardinality({i \in pl..pr :
                           v[t[i]] < v[t[j]] \/ (v[t[i]] = v[t[j]] /\ i < j)})
    IN  AsTuple([k \in 1..Len(t) |->
                    IF k \in pl..pr THEN t[CHOOSE j \in pl..pr : rank(j) = k]
                    ELSE t[k]])

\* do ++pi while v[t[pi]] < vp
ScanUp(v, t, pi, vp) ==
    CHOOSE i \in (pi + 1)..Len(t) :
        /\ ~(v[t[i]] < vp)
        /\ \A j \in (pi + 1)..(i - 1) : v[t[j]] < vp

\* do --pj while vp < v[t[pj]]
ScanDown(v, t, pj, vp) ==
    CHOOSE i \in 1..(pj - 1) :
        /\ ~(vp < v[t[i]])
        /\ \A j \in (i + 1)..(pj - 1) : vp < v[t[j]]

RECURSIVE PartitionLoop(_, _, _, _, _)

\* the partition loop around the pivot value vp: scan, swap, until the scans
\* cross; the index array it leaves and where the upward scan stopped
PartitionStep(v, t, i, j, vp) ==
    IF i >= j THEN [t |-> t, pi |-> i]
    ELSE PartitionLoop(v, Swap(t, i, j), i, j, vp)

PartitionLoop(v, t, pi, pj, vp) ==
    PartitionStep(v, t, ScanUp(v, t, pi, vp), ScanDown(v, t, pj, vp), vp)

\* the median of t[pl], t[pm], t[pr] brought to pm
MedianOfThree(v, t, pl, pm, pr) ==
    SwapIfLess(v, SwapIfLess(v, SwapIfLess(v, t, pm, pl), pr, pm), pm, pl)

RECURSIVE AQuickSort(_, _, _, _)

\* the two sides of the pivot, which the partition p left at p.pi, sorted
SortSides(v, p, pl, pr) ==
    AQuickSort(v, AQuickSort(v, Swap(p.t, p.pi, pr - 1), pl, p.pi - 1),
               p.pi + 1, pr)

\* the pivot of the median-ordered t moved to pr - 1, and the range split
SplitAt(v, t, pl, pm, pr) ==
    SortSides(v, PartitionLoop(v, Swap(t, pm, pr - 1), pl, pr - 1, v[t[pm]]),
              pl, pr)

\* numpy's argsort of kind 'quicksort' on positions pl..pr of the index array
\* t (the heapsort it falls back on at depth 2*log2(n) is out of reach of
\* the tables enumerated)
AQuickSort(v, t, pl, pr) ==
    IF pr - pl > SMALL_QUICKSORT
    THEN SplitAt(v, MedianOfThree(v, t, pl, pl + (pr - pl) \div 2, pr),
                 pl, pl + (pr - pl) \div 2, pr)
    ELSE InsertionSort(v, t, pl, pr)

\* v.argsort(kind='quicksort')
ArgSort(v) == AQuickSort(v, AsTuple([i \in 1..Len(v) |-> i]), 1, Len(v))

Reversed(xs) == AsTuple([k \in 1..Len(xs) |-> xs[Len(xs) + 1 - k]])

\* pandas' descending order of an index array a computed on reversed items
Descending(a) == AsTuple([k \in 1..Len(a) |-> Len(a) + 1 - a[Len(a) + 1 - k]])

\* the row order of df.sort_values(col, ascending=False): pandas reverses the
\* column, argsorts it ascending with the default kind 'quicksort', and
\* reverses the result
SortDesc(xs) == Descending(ArgSort(Reversed(xs)))

\* one (text, color) fragment of an insight line; the text is its label, the
\* Country it names (if any) and its formatted number (if any)
Piece(label, who, fmt, num, color) ==
    [label |-> label, who |-> who, fmt |-> fmt, num |-> num, color |-> color]

Slide(kind, title, cols, cells, insights) ==
    [kind |-> kind, title |-> title, cols |-> cols, cells |-> cells,
     insights |-> insights]

\* a slide of layout 0 with its title set
TitleSlide(title) == Slide("title", title, <<>>, <<>>, <<>>)

\* the first line of meta.txt when there is one, else the folder's name
FolderTitle(folder) ==
    IF folder.meta = "titled" THEN "First line of meta.txt" ELSE folder.name

(***************************************************************************)
(* slide2.process                                                          *)
(***************************************************************************)
\* lines 165-182: the cleaned and renamed headers; .lower() raises on a
\* header that is not a str
MappedColumns(df) ==
    AsTuple([i \in 1..Len(df.cols) |-> ColMap(_clean_header(df.cols[i]).v)])

\* df.rename(columns=col_map)
RenamedFrame(df, mapped) ==
    IF \E i \in 1..Len(mapped) : mapped[i].raised THEN Raise
    ELSE Return([cols |-> AsTuple([i \in 1..Len(mapped) |-> mapped[i].v]),
                 rows |-> df.rows])

RenameColumns(df) == RenamedFrame(df, MappedColumns(df))

ParseCell(name, cell) ==
    IF name \in {Target, Actual} THEN _parse_currency(cell)
    ELSE IF name \in {PctToAsp, YoY} THEN _parse_percent(cell)
    ELSE Return(cell)

\* lines 185-192: the four recognised value columns parsed to floats
ParsedCells(df) ==
    AsTuple([r \in 1..Len(df.rows) |->
        AsTuple([i \in 1..Len(df.cols) |-> ParseCell(df.cols[i], df.rows[r][i])])])

\* the frame whose value columns hold the parsed floats
ParsedFrame(df, parsed) ==
    IF \E r \in 1..Len(df.rows) : \E i \in 1..Len(df.cols) : parsed[r][i].raised
    THEN Raise
    ELSE Return([cols |-> df.cols,
                 rows |-> AsTuple([r \in 1..Len(df.rows) |->
                             AsTuple([i \in 1..Len(df.cols) |->
                                IF df.cols[i] \in {Target, Actual, PctToAsp, YoY}
                                THEN NumCell(parsed[r][i].v)
                                ELSE parsed[r][i].v])])])

ParseColumns(df) == ParsedFrame(df, ParsedCells(df))

DisplayCell(name, cell) ==
    IF name \in {Target, Actual} THEN _format_currency(cell.n)
    ELSE IF name = PctToAsp
         THEN [fmt |-> ".1f%", num |-> FormatFixed1(cell.n), raw |-> NullCell]
    ELSE IF name = YoY
         THEN [fmt |-> "+.1f%", num |-> FormatFixed1(cell.n), raw |-> NullCell]
    ELSE [fmt |-> "str", num |-> 0, raw |-> cell]

\* lines 195-203: display_df
DisplayRows(df) ==
    AsTuple([r \in 1..Len(df.rows) |->
        AsTuple([i \in 1..Len(df.cols) |-> DisplayCell(df.cols[i], df.rows[r][i])])])

\* lines 209-220: the total-comparison insight
TotalInsight(df) ==
    IF HasCol(df, Target) /\ HasCol(df, Actual)
    THEN LET total_target == SeqSum(ColumnVals(df, Target))
             total_actual == SeqSum(ColumnVals(df, Actual))
             diff         == total_actual - total_target
         IN  << << Piece("Total Target: ", <<>>, "", 0, "black"),
                   Piece("", <<>>, ",.0f", FormatFixed0(total_target), "black"),
                   Piece("Total Actual: ", <<>>, "", 0, "black"),
                   Piece("", <<>>, ",.0f", FormatFixed0(total_actual),
                         IF diff >= 0 THEN "green" ELSE "red"),
                   Piece("% of target", <<>>, ".1f",
                         FormatPct1(total_actual, total_target), "black") >> >>
    ELSE <<>>

\* row[name] of a sorted row: KeyError when the frame has no such column
RowGet(df, r, name) ==
    IF HasCol(df, name) THEN Return(df.rows[r][ColIndex(df, name)]) ELSE Raise

\* lines 222-231 and 233-242: the top and bottom rows of column name
Extremes(df, name, topLabel, bottomLabel, fmt) ==
    IF HasCol(df, name) /\ ~AllNull(ColumnVals(df, name))
    THEN LET vals   == ColumnVals(df, name)
             order  == SortDesc(vals)
             top    == order[1]
             bottom == order[Len(order)]
             topc   == RowGet(df, top, Country)
             botc   == RowGet(df, bottom, Country)
         IN  IF topc.raised \/ botc.raised THEN Raise
             ELSE Return(<< << Piece(topLabel, <<topc.v>>, fmt,
                                     FormatFixed1(vals[top]),
                                     IF vals[top] >= 0 THEN "green" ELSE "red") >>,
                            << Piece(bottomLabel, <<botc.v>>, fmt,
                                     FormatFixed1(vals[bottom]),
                                     IF vals[bottom] < 0 THEN "red" ELSE "black") >> >>)
    ELSE Return(<<>>)

\* lines 208-242: the insights list
InsightLines(total, asp, yoy) ==
    IF asp.raised \/ yoy.raised THEN Raise
    ELSE Return(total \o asp.v \o yoy.v)

Insights(df) ==
    InsightLines(TotalInsight(df),
        Extremes(df, PctToAsp, "Top % to Asp: ", "Lowest % to Asp: ", ".1f"),
        Extremes(df, YoY, "Top YoY: ", "Worst YoY: ", "+.1f"))

\* _add_table_slide: one slide holding the table and, beside it, the insights
_add_table_slide(prs, df, cells, title, insights) ==
    Append(prs, Slide("table", title, df.cols, cells, insights))

\* lines 164-245: the workbook was read into df
\* lines 205-245: the insights were derived from the parsed frame df
ProcessInsights(prs, df, insights) ==
    IF insights.raised THEN [raised |-> TRUE, deck |-> prs]
    ELSE [raised |-> FALSE,
          deck |-> _add_table_slide(prs, df, DisplayRows(df),
                                    "Target vs Actual", insights.v)]

\* lines 194-245: the value columns were parsed
ProcessParsed(prs, parsed) ==
    IF parsed.raised THEN [raised |-> TRUE, deck |-> prs]
    ELSE ProcessInsights(prs, parsed.v, Insights(parsed.v))

\* lines 184-245: the columns were renamed
ProcessRenamed(prs, renamed) ==
    IF renamed.raised THEN [raised |-> TRUE, deck |-> prs]
    ELSE ProcessParsed(prs, ParseColumns(renamed.v))

ProcessFrame(prs, df) == ProcessRenamed(prs, RenameColumns(df))

\* process with pd.read_excel outside any try: a read failure propagates
ProcessReadUnguarded(prs, folder) ==
    IF folder.excel = "absent"
    THEN [raised |-> FALSE, deck |-> Append(prs, TitleSlide(<<FolderTitle(folder)>>))]
    ELSE IF folder.excel = "unreadable"
    THEN [raised |-> TRUE, deck |-> prs]
    ELSE ProcessFrame(prs, folder.table)

\* slide2.process(prs, folder): the deck it leaves and whether it raised
Process(prs, folder) ==
    IF folder.excel = "absent"
    THEN [raised |-> FALSE, deck |-> Append(prs, TitleSlide(<<FolderTitle(folder)>>))]
    ELSE IF folder.excel = "unreadable"
    THEN [raised |-> FALSE,
          deck |-> Append(prs, TitleSlide(<<FolderTitle(folder),
                                            " (failed to read Excel)">>))]
    ELSE ProcessFrame(prs, folder.table)

(***************************************************************************)
(* The cell parsers under test                                             *)
(***************************************************************************)
\* no run of generate or process is under way
RunIdle ==
    /\ root = <<>>
    /\ idx = 0
    /\ pc = "unit"
    /\ deck = <<>>
    /\ saved = FALSE
    /\ platform = "posix"
    /\ log = <<>>

\* no single function is under test
UnitIdle ==
    /\ arg = NullCell
    /\ ret = Return(0)
    /\ fn = "none"

InitCell ==
    /\ arg \in Cells
    /\ ret = Return(0)
    /\ fn = "none"
    /\ RunIdle

CallParseCurrency ==
    /\ fn = "none"
    /\ pc = "unit"
    /\ arg \in Cells
    /\ fn' = "_parse_currency"
    /\ ret' = _parse_currency(arg)
    /\ UNCHANGED <<arg, runVars>>

CallParsePercent ==
    /\ fn = "none"
    /\ pc = "unit"
    /\ arg \in Cells
    /\ fn' = "_parse_percent"
    /\ ret' = _parse_percent(arg)
    /\ UNCHANGED <<arg, runVars>>

NextCell == CallParseCurrency \/ CallParsePercent

SpecCell == InitCell /\ [][NextCell]_vars

(***************************************************************************)
(* The header functions under test                                         *)
(***************************************************************************)
InitHeader ==
    /\ arg \in Headers
    /\ ret = Return(0)
    /\ fn = "none"
    /\ RunIdle

CallCleanHeader ==
    /\ fn = "none"
    /\ pc = "unit"
    /\ arg \in Headers
    /\ fn' = "_clean_header"
    /\ ret' = _clean_header(arg)
    /\ UNCHANGED <<arg, runVars>>

\* process, lines 165-182, for one column: clean the header, then map it
CallColMap ==
    /\ fn = "none"
    /\ pc = "unit"
    /\ arg \in Headers
    /\ fn' = "col_map"
    /\ ret' = ColMap(_clean_header(arg).v)
    /\ UNCHANGED <<arg, runVars>>

NextHeader == CallCleanHeader \/ CallColMap

SpecHeader == InitHeader /\ [][NextHeader]_vars

(***************************************************************************)
(* The workbooks and folders the model enumerates                          *)
(***************************************************************************)
\* the columns a workbook may hold, in sheet order; at most one header per
\* canonical name, and "num" is a column under a numeric header cell
ColumnKeys == <<"country", "target", "actual", "asp", "yoy", "num">>

RawHeader(k) ==
    CASE k = "country" -> TextCell(<<"C", "o", "u", "n", "t", "r", "y">>)
      [] k = "target"  -> TextCell(<<ZERO_WIDTH, "T", "a", "r", "g", "e", "t">>)
      [] k = "actual"  -> TextCell(<<"A", "C", "T", "U", "A", "L">>)
      [] k = "asp"     -> TextCell(<<"%", " ", "t", "o", " ", "A", "s", "p", " ">>)
      [] k = "yoy"     -> TextCell(<<"Y", "-", "o", "-", "Y">>)
      [] OTHER         -> NumericHeader

\* the cells column k may hold; a Country cell names its row
CellDomain(k) ==
    CASE k = "target"  -> {NumCell(100 * Unit), NumCell(200 * Unit)}
      [] k = "actual"  -> {NumCell(90 * Unit), TextCell(txtCurrency)}
      [] k = "asp"     -> {NullCell, NumCell(5 * Unit), NumCell((0 - 3) * Unit)}
      [] k = "yoy"     -> {NullCell, TextCell(txtMinus)}
      [] OTHER         -> {NumCell(Unit)}

\* the ways to fill column k of an n-row sheet that holds the columns present
ColumnChoices(k, present, n) ==
    IF k \in present THEN [1..n -> CellDomain(k)] ELSE {<<>>}

\* the frame pd.read_excel returns for a sheet with the columns present and
\* n rows, its value columns filled with t, a, p and y
MkTable(present, n, t, a, p, y) ==
    LET keys == SelectSeq(ColumnKeys, LAMBDA k : k \in present)
        cell(k, r) == CASE k = "country" -> TextCell(<<UpperChars[r]>>)
                        [] k = "target"  -> t[r]
                        [] k = "actual"  -> a[r]
                        [] k = "asp"     -> p[r]
                        [] k = "yoy"     -> y[r]
                        [] OTHER         -> NumCell(Unit)
    IN  [cols |-> AsTuple([i \in 1..Len(keys) |-> RawHeader(keys[i])]),
         rows |-> AsTuple([r \in 1..n |->
                     AsTuple([i \in 1..Len(keys) |-> cell(keys[i], r)])])]

\* the column sets of the enumerated sheets with textual headers only
ColumnSets == SUBSET {"country", "target", "actual", "asp", "yoy"} \ {{}}

\* a column filled with one value in every row
Filled(n, cell) == [r \in 1..n |-> cell]

NoTable == [cols |-> <<>>, rows |-> <<>>]

\* the rows of the shortest sheet that the default sort partitions
TallRows == SMALL_QUICKSORT + 2

\* value columns of a tall sheet: one low value first, one high value last,
\* and all values equal
TallFills ==
    { [r \in 1..TallRows |-> NumCell(IF r = 1 THEN Unit ELSE 5 * Unit)],
      [r \in 1..TallRows |-> NumCell(IF r = TallRows THEN 5 * Unit ELSE Unit)],
      [r \in 1..TallRows |-> NumCell(5 * Unit)] }

\* a sub-folder of slides_root: its name, its meta.txt ("absent", "empty",
\* "titled"), its Target-V-Actual.xlsx ("absent", "unreadable", "ok" with
\* the frame read from it), its *.csv files in glob order (each "ok" or
\* "bad" for pd.read_csv), the number of its images other than Slide1.jpg
\* and Lenovo-Logo.png, and whether it holds one of those two
Folder(name, meta, excel, table, csvs, imgs, art) ==
    [name |-> name, meta |-> meta, excel |-> excel, table |-> table,
     csvs |-> csvs, imgs |-> imgs, art |-> art]

Metas == {"absent", "empty", "titled"}

(***************************************************************************)
(* slide2.process under test                                               *)
(***************************************************************************)
InitProcess ==
    /\ UnitIdle
    /\ idx = 1
    /\ pc = "call"
    /\ deck = <<>>
    /\ saved = FALSE
    /\ platform = "posix"
    /\ log = <<>>
    /\ \/ \E m \in Metas, e \in {"absent", "unreadable"} :
             root = <<Folder("slide2", m, e, NoTable, <<>>, 0, FALSE)>>
       \/ \E present \in ColumnSets, n \in 0..MaxRows :
             \E t \in ColumnChoices("target", present, n),
                a \in ColumnChoices("actual", present, n),
                p \in ColumnChoices("asp", present, n),
                y \in ColumnChoices("yoy", present, n) :
                root = <<Folder("slide2", "titled", "ok",
                                MkTable(present, n, t, a, p, y), <<>>, 0, FALSE)>>
       \/ \E present \in ColumnSets \cup {{}}, n \in 0..MaxRows :
             root = <<Folder("slide2", "titled", "ok",
                             MkTable(present \cup {"num"}, n,
                                     Filled(n, NumCell(100 * Unit)),
                                     Filled(n, NumCell(90 * Unit)),
                                     Filled(n, NumCell(5 * Unit)),
                                     Filled(n, NullCell)), <<>>, 0, FALSE)>>
       \/ \E k \in {"asp", "yoy"}, fill \in TallFills :
             root = <<Folder("slide2", "titled", "ok",
                             MkTable({"country", k}, TallRows, <<>>, <<>>,
                                     fill, fill), <<>>, 0, FALSE)>>

\* the call ended with result r
ProcessEnds(r) ==
    /\ deck' = r.deck
    /\ pc' = IF r.raised THEN "raised" ELSE "returned"

CallProcess ==
    /\ pc = "call"
    /\ ProcessEnds(Process(deck, root[idx]))
    /\ UNCHANGED <<unitVars, root, idx, saved, platform, log>>

NextProcess == CallProcess

SpecProcess == InitProcess /\ [][NextProcess]_vars

(***************************************************************************)
(* slide1.process and process_generic_folder                               *)
(***************************************************************************)
\* a slide of layout 5: "designed" (background, text boxes, date, logo),
\* "csv" (the table of one csv file, titled with its stem) or "images"
BlankSlide(kind, title) == Slide(kind, title, <<>>, <<>>, <<>>)

\* date.strftime('%-d, %B, %Y'): the C library of the platform decides; glibc
\* drops the day's leading zero, the Windows runtime rejects the format
StrftimeRaises(os) == os = "windows"

\* _add_bg_and_boxes with the date formatted before the slide is added
AddBgAndBoxesDateFirst(prs, folder, os) ==
    [raised |-> StrftimeRaises(os),
     deck |-> IF StrftimeRaises(os) THEN prs
              ELSE Append(prs, BlankSlide("designed", <<>>))]

\* _add_bg_and_boxes: the slide is added first, the date is formatted after
AddBgAndBoxes(prs, folder, os) ==
    [raised |-> StrftimeRaises(os),
     deck |-> Append(prs, BlankSlide("designed", <<>>))]

\* _add_images: one slide when the folder holds an image other than
\* Slide1.jpg and Lenovo-Logo.png
AddImages(prs, folder) ==
    IF folder.imgs = 0 THEN prs ELSE Append(prs, BlankSlide("images", <<>>))

\* slide1.process(prs, folder): the deck it leaves and whether it raised
Slide1Process(prs, folder, os) ==
    LET main == AddBgAndBoxes(prs, folder, os)
    IN  IF main.raised THEN main
        ELSE [raised |-> FALSE, deck |-> AddImages(main.deck, folder)]

RECURSIVE CsvSlides(_, _)

\* the csv loop: a file pd.read_csv rejects adds nothing
CsvSlides(prs, csvs) ==
    IF csvs = <<>> THEN prs
    ELSE CsvSlides(IF Head(csvs) = "ok"
                   THEN Append(prs, BlankSlide("csv", <<"stem">>))
                   ELSE prs,
                   Tail(csvs))

\* process_generic_folder(prs, folder): a title slide, a slide per readable
\* csv, and one images slide when the folder holds any image
process_generic_folder(prs, folder) ==
    LET titled == Append(prs, TitleSlide(<<FolderTitle(folder)>>))
        tabled == CsvSlides(titled, folder.csvs)
    IN  IF folder.imgs > 0 \/ folder.art
        THEN Append(tabled, BlankSlide("images", <<>>))
        ELSE tabled

(***************************************************************************)
(* generate: the folder loop                                               *)
(***************************************************************************)
\* the sub-folder names the model draws from, in sorted order
FolderNames == <<"intro", "slide1", "slide2", "summary">>

\* a sheet slide2.process renders and one it raises on (no Country column)
GoodTable ==
    MkTable({"country", "target", "actual"}, 1, Filled(1, NumCell(100 * Unit)),
            Filled(1, NumCell(90 * Unit)), <<>>, <<>>)

BadTable ==
    MkTable({"asp"}, 1, <<>>, <<>>, Filled(1, NumCell(5 * Unit)), <<>>)

\* the contents the model gives a folder of each name
FolderChoices(name) ==
    CASE name = "slide2" ->
            { Folder(name, m, e[1], e[2], c, 0, FALSE) :
                m \in {"absent", "titled"},
                e \in {<<"absent", NoTable>>, <<"unreadable", NoTable>>,
                       <<"ok", GoodTable>>, <<"ok", BadTable>>},
                c \in {<<>>, <<"ok">>} }
      [] name = "slide1" ->
            { Folder(name, "absent", "absent", NoTable, c, i, a) :
                c \in {<<>>, <<"ok">>}, i \in {0, 1}, a \in BOOLEAN }
      [] name = "intro" ->
            { Folder(name, m, "absent", NoTable, c, i, FALSE) :
                m \in Metas, c \in {<<>>, <<"bad", "ok">>}, i \in {0, 1} }
      [] OTHER ->
            { Folder(name, "absent", "absent", NoTable, c, i, FALSE) :
                c \in {<<>>, <<"ok">>}, i \in {0, 1} }

\* one record of log: the handler run for folder i, whether it raised, and
\* the slides it added (deck positions from+1 .. to)
LogEntry(i, handler, raised, from, to) ==
    [folder |-> i, handler |-> handler, raised |-> raised,
     from |-> from, to |-> to]

\* a name with no sub-folder under slides_root
Missing == Folder("", "absent", "absent", NoTable, <<>>, 0, FALSE)

\* where a name stands in the sorted order of the names
NameRank(name) == CHOOSE i \in 1..Len(FolderNames) : FolderNames[i] = name

\* sorted(folders): by name, ascending
SortedByName(fs) ==
    LET rank(i) == 1 + Cardinality({j \in 1..Len(fs) :
                          NameRank(fs[j].name) < NameRank(fs[i].name)})
    IN  AsTuple([k \in 1..Len(fs) |->
                    fs[CHOOSE i \in 1..Len(fs) : rank(i) = k]])

\* the orders in which slides_root.iterdir() may list fs: as given, or
\* backwards
Listings(fs) == {fs, Reversed(fs)}

\* line 197: prs = Presentation(), before slides_root is listed
InitGenerate ==
    /\ UnitIdle
    /\ root = <<>>
    /\ idx = 1
    /\ pc = "start"
    /\ deck = <<>>
    /\ saved = FALSE
    /\ log = <<>>
    /\ platform \in {"posix", "windows"}

\* line 203: sorted(p for p in slides_root.iterdir() if p.is_dir()): the
\* sub-folders that exist, listed in some order and sorted by name
ListFolders ==
    /\ pc = "start"
    /\ \E f1 \in FolderChoices(FolderNames[1]) \cup {Missing},
          f2 \in FolderChoices(FolderNames[2]) \cup {Missing},
          f3 \in FolderChoices(FolderNames[3]) \cup {Missing},
          f4 \in FolderChoices(FolderNames[4]) \cup {Missing} :
          \E listing \in Listings(SelectSeq(<<f1, f2, f3, f4>>,
                                            LAMBDA f : f # Missing)) :
             /\ Len(listing) <= MaxFolders
             /\ root' = SortedByName(listing)
    /\ pc' = "loop"
    /\ UNCHANGED <<unitVars, idx, deck, saved, platform, log>>

\* the handler call with no try around it: an exception ends the run
HandlerEndsUncaught(handler, r) ==
    /\ deck' = r.deck
    /\ log' = Append(log, LogEntry(idx, handler, r.raised, Len(deck), Len(r.deck)))
    /\ pc' = IF r.raised THEN "raised" ELSE "loop"
    /\ idx' = IF r.raised THEN idx ELSE idx + 1

\* lines 206-211 and 214-219: the handler ended with result r; `continue`
\* when it returned, `pass` when it raised
HandlerEnds(handler, r) ==
    /\ deck' = r.deck
    /\ log' = Append(log, LogEntry(idx, handler, r.raised, Len(deck), Len(r.deck)))
    /\ pc' = IF r.raised THEN "generic" ELSE "loop"
    /\ idx' = IF r.raised THEN idx ELSE idx + 1

VisitSlide2 ==
    /\ pc = "loop"
    /\ idx <= Len(root)
    /\ root[idx].name = "slide2"
    /\ HandlerEnds("slide2", Process(deck, root[idx]))
    /\ UNCHANGED <<unitVars, root, saved, platform>>

\* lines 213-219: the folder is named slide1
VisitSlide1 ==
    /\ pc = "loop"
    /\ idx <= Len(root)
    /\ root[idx].name = "slide1"
    /\ HandlerEnds("slide1", Slide1Process(deck, root[idx], platform))
    /\ UNCHANGED <<unitVars, root, saved, platform>>

\* line 221: any other folder, and a folder whose handler raised
VisitGeneric ==
    /\ idx <= Len(root)
    /\ \/ pc = "generic"
       \/ pc = "loop" /\ root[idx].name \notin {"slide1", "slide2"}
    /\ deck' = process_generic_folder(deck, root[idx])
    /\ log' = Append(log, LogEntry(idx, "generic", FALSE, Len(deck), Len(deck')))
    /\ pc' = "loop"
    /\ idx' = idx + 1
    /\ UNCHANGED <<unitVars, root, saved, platform>>

\* line 223: prs.save(output), after the last folder
Save ==
    /\ pc = "loop"
    /\ idx > Len(root)
    /\ saved' = TRUE
    /\ pc' = "done"
    /\ UNCHANGED <<unitVars, root, idx, deck, platform, log>>

NextGenerate == ListFolders \/ VisitSlide2 \/ VisitSlide1 \/ VisitGeneric \/ Save

SpecGenerate == InitGenerate /\ [][NextGenerate]_vars

\* generate is sequential: when the loop has ended, line 223 runs
FairGenerate == SpecGenerate /\ WF_vars(Save)

(***************************************************************************)
(* Properties of the cell parsers (SpecCell)                               *)
(***************************************************************************)
\* the characters _parse_currency is said to keep
KeptByCurrency(s) ==
    SelectSeq(s, LAMBDA c : c \in {"0", "1", "2", "3", "4", "5", "6", "7", "8",
                                   "9", ".", "-"})

\* C1: _parse_currency never raises; a null cell gives 0.0, a numeric cell its
\* value, and a text gives the float of what is left after every character
\* other than digits, '.' and '-' is removed, or 0.0 when that is no number
\* ("$1,234.50" gives 1234.50; "N/A", "-", ".", "1.2.3", "12-34" give 0.0).
C1_ParseCurrencyTotal ==
    fn = "_parse_currency" =>
        /\ ~ret.raised
        /\ arg.kind = "null" => ret.v = 0
        /\ arg.kind = "num" => ret.v = arg.n
        /\ arg.kind = "text" =>
              LET rest == KeptByCurrency(arg.s)
              IN  ret.v = IF FloatValid(rest) THEN FloatValue(rest) ELSE 0
        /\ arg = TextCell(txtDollar) => ret.v = 123450 * (Unit \div 100)
        /\ arg \in {TextCell(txtNA), TextCell(<<"-">>), TextCell(<<".">>),
                    TextCell(txtTwoDots), TextCell(txtInnerMinus),
                    TextCell(<<>>)} => ret.v = 0

\* C1 witness: float() raised on "1.2.3" and the parser returned 0.0
C1_Witness ==
    /\ fn = "_parse_currency"
    /\ arg = TextCell(txtTwoDots)
    /\ ret = Return(0)

\* the text _parse_percent is said to hand to float(): zero-width characters
\* and surrounding whitespace removed, then one trailing '%'
PercentTrailingStripped(s) ==
    LET t == StrStrip(StrRemove(s, ZERO_WIDTH))
    IN  IF t # <<>> /\ t[Len(t)] = "%" THEN SubSeq(t, 1, Len(t) - 1) ELSE t

\* C2: _parse_percent never raises and, on a text, removes only zero-width
\* characters, surrounding whitespace and a trailing '%' before float():
\* "12.3%" gives 12.3, "" gives 0.0, and a text that is no number after that
\* stripping (a '%' not at the end: "1%2", "%5") gives 0.0.
C2_ParsePercentTrailingOnly ==
    (fn = "_parse_percent" /\ arg.kind = "text") =>
        /\ ~ret.raised
        /\ LET rest == PercentTrailingStripped(arg.s)
           IN  ret.v = IF FloatValid(rest) THEN FloatValue(rest) ELSE 0
        /\ arg = TextCell(txtPercent) => ret.v = 123 * (Unit \div 10)
        /\ arg = TextCell(<<>>) => ret.v = 0
        /\ arg \in {TextCell(txtInnerPercent), TextCell(<<"%", "5">>)} => ret.v = 0

(***************************************************************************)
(* Properties of the header functions (SpecHeader)                         *)
(***************************************************************************)
\* k occurs in s when letter case is ignored, compared position by position
ContainsIgnoringCase(s, k) ==
    \E i \in 0..(Len(s) - Len(k)) :
        \A j \in 1..Len(k) : LowerChar(s[i + j]) = LowerChar(k[j])

\* the keyword sets in priority order, each with its canonical name
MappingRules ==
    << [kws |-> {kwCountry}, name |-> Country],
       [kws |-> {kwTarget}, name |-> Target],
       [kws |-> {kwActual}, name |-> Actual],
       [kws |-> {kwToAsp, kwPctToAsp, kwAsp}, name |-> PctToAsp],
       [kws |-> {kwYoY, kwYOY}, name |-> YoY] >>

RuleMatches(i, h) == \E k \in MappingRules[i].kws : ContainsIgnoringCase(h.s, k)

\* the name the priority rules give header h
RuledName(h) ==
    LET hits == {i \in 1..Len(MappingRules) : RuleMatches(i, h)}
    IN  IF hits = {} THEN h
        ELSE MappingRules[CHOOSE i \in hits : \A j \in hits : i <= j].name

hdrActualSp == <<"a", "c", "t", "u", "a", "l", " ">>

hdrACTUAL == <<"A", "C", "T", "U", "A", "L">>

hdrActualSales == <<"A", "c", "t", "u", "a", "l", " ", "S", "a", "l", "e", "s">>

hdrTargetActual == <<"T", "a", "r", "g", "e", "t", " ", "A", "c", "t", "u", "a", "l">>

hdrSales == <<"S", "a", "l", "e", "s">>

\* C3: the column mapping is case-insensitive, substring-based and ordered
\* country > target > actual > asp > yoy: a cleaned textual header gets the
\* canonical name of the first keyword set it contains ("actual ", "ACTUAL",
\* "Actual Sales" become Actual; 'target' with 'actual' becomes Target), and
\* a header with none of the keywords keeps its name.
C3_ColumnMapping ==
    (fn = "col_map" /\ arg.kind = "text") =>
        /\ ~ret.raised
        /\ ret.v = RuledName(TextCell(StrStrip(StrRemove(arg.s, ZERO_WIDTH))))
        /\ arg.s \in {hdrActualSp, hdrACTUAL, hdrActualSales} => ret.v = Actual
        /\ arg.s = hdrTargetActual => ret.v = Target
        /\ arg.s = hdrSales => ret.v = TextCell(hdrSales)

\* C3 witness: a header holding both 'target' and 'actual' was mapped to Target
C3_Witness ==
    /\ fn = "col_map"
    /\ arg = TextCell(hdrTargetActual)
    /\ ret = Return(Target)

IsClean(s) ==
    /\ \A i \in 1..Len(s) : s[i] # ZERO_WIDTH
    /\ s # <<>> => (s[1] \notin Whitespace /\ s[Len(s)] \notin Whitespace)

\* C10: _clean_header is idempotent, and returns unchanged a non-textual
\* header and a text with no zero-width character and no leading or trailing
\* whitespace.
C10_CleanHeaderIdempotent ==
    fn = "_clean_header" =>
        /\ ~ret.raised
        /\ _clean_header(ret.v) = ret
        /\ arg.kind # "text" => ret.v = arg
        /\ (arg.kind = "text" /\ IsClean(arg.s)) => ret.v = arg
        /\ ret.v.kind = "text" => IsClean(ret.v.s)

\* C10 witness: a header that starts with a zero-width character and a space
\* was cleaned to a text that cleaning leaves alone
C10_Witness ==
    /\ fn = "_clean_header"
    /\ arg = TextCell(<<ZERO_WIDTH, " ">> \o hdrSales)
    /\ ret = Return(TextCell(hdrSales))

(***************************************************************************)
(* Properties of slide2.process (SpecProcess)                              *)
(***************************************************************************)
\* process has finished, by returning or by raising
Finished == pc \in {"returned", "raised"}

\* the frame read from the workbook of the folder under test
Sheet == root[1].table

SheetRead == root[1].excel = "ok"

NRows == Len(Sheet.rows)

\* the sheet has the column whose header maps to the canonical name of k
HasKey(k) == \E i \in 1..Len(Sheet.cols) : Sheet.cols[i] = RawHeader(k)

\* the number a cell of the enumerated sheets stands for, in units
CellNumber(c) ==
    CASE c.kind = "num"          -> c.n
      [] c = TextCell(txtCurrency) -> 250 * Unit
      [] c = TextCell(txtMinus)    -> (0 - 3) * Unit
      [] OTHER                     -> 0

\* the numbers of column k, row by row
KeyNumbers(k) ==
    [r \in 1..NRows |->
        CellNumber(Sheet.rows[r][CHOOSE i \in 1..Len(Sheet.cols) :
                                    Sheet.cols[i] = RawHeader(k)])]

RECURSIVE SumTo(_, _)

SumTo(f, n) == IF n = 0 THEN 0 ELSE f[n] + SumTo(f, n - 1)

KeyTotal(k) == SumTo(KeyNumbers(k), NRows)

\* the insight lines of the table slide process added (none if it added none)
Emitted ==
    IF pc = "returned" /\ Len(deck) = 1 /\ deck[1].kind = "table"
    THEN deck[1].insights ELSE <<>>

IsTotalLine(line) == Len(line) = 5 /\ line[1].label = "Total Target: "

\* tenths is num / den * 100 to one decimal place (0 when den is 0)
IsPercentOf(tenths, num, den) ==
    IF den = 0 THEN tenths = 0
    ELSE LET g == Gcd(Abs(num), Abs(den))
         IN  2 * Abs(tenths * (den \div g) - 1000 * (num \div g)) <= Abs(den \div g)

\* the first emitted line is the total comparison of the sheet, as claimed
TotalLineAsClaimed ==
    /\ Len(Emitted) >= 1
    /\ IsTotalLine(Emitted[1])
    /\ \A i \in 2..Len(Emitted) : ~IsTotalLine(Emitted[i])
    /\ LET line == Emitted[1]
           tt   == KeyTotal("target")
           ta   == KeyTotal("actual")
       IN  /\ line[2].num * Unit = tt
           /\ line[4].num * Unit = ta
           /\ IsPercentOf(line[5].num, ta, tt)
           /\ line[4].color = IF ta - tt >= 0 THEN "green" ELSE "red"
           /\ \A j \in {1, 2, 3, 5} : line[j].color = "black"
           /\ (NRows = 2 /\ KeyNumbers("target") = <<100 * Unit, 200 * Unit>>
                         /\ KeyNumbers("actual") = <<90 * Unit, 250 * Unit>>) =>
                 /\ line[2].num = 300
                 /\ line[4].num = 340
                 /\ line[5].num = 1133
                 /\ line[4].color = "green"

\* C4: when the Target and Actual columns are both present, process emits
\* exactly one total-comparison insight, first, with the two sums, the
\* percentage sum(Actual)/sum(Target)*100 (0 for a zero Target sum), and the
\* actual total green iff the difference is >= 0, red otherwise, the other
\* fragments black (Target=[100,200], Actual=[90,250]: 300, 340, green).
C4_TotalComparison ==
    (Finished /\ SheetRead /\ HasKey("target") /\ HasKey("actual")) =>
        TotalLineAsClaimed

\* the total comparison is as claimed whenever process returns
TotalComparisonWhenReturned ==
    (pc = "returned" /\ SheetRead /\ HasKey("target") /\ HasKey("actual")) =>
        TotalLineAsClaimed

TopLabel(k) == IF k = "asp" THEN "Top % to Asp: " ELSE "Top YoY: "

BottomLabel(k) == IF k = "asp" THEN "Lowest % to Asp: " ELSE "Worst YoY: "

\* where the top insight of column k is claimed to stand
TopPosition(k) ==
    1 + (IF HasKey("target") /\ HasKey("actual") THEN 1 ELSE 0)
      + (IF k = "yoy" /\ HasKey("asp") THEN 2 ELSE 0)

\* the line names the Country and the value of a row of column k holding v
NamesRowWith(line, k, v) ==
    /\ Len(line) = 1
    /\ \E r \in 1..NRows :
          /\ KeyNumbers(k)[r] = v
          /\ line[1].who = <<TextCell(<<UpperChars[r]>>)>>
    /\ 2 * Abs(line[1].num * Unit - 10 * v) <= Unit

\* the top and bottom insights of column k stand where claimed and say what
\* is claimed
ExtremesAsClaimed(k) ==
    LET vals == KeyNumbers(k)
        max  == CHOOSE v \in {vals[r] : r \in 1..NRows} :
                    \A r \in 1..NRows : vals[r] <= v
        min  == CHOOSE v \in {vals[r] : r \in 1..NRows} :
                    \A r \in 1..NRows : v <= vals[r]
        at   == TopPosition(k)
    IN  /\ Len(Emitted) >= at + 1
        /\ Emitted[at][1].label = TopLabel(k)
        /\ NamesRowWith(Emitted[at], k, max)
        /\ Emitted[at][1].color = IF max >= 0 THEN "green" ELSE "red"
        /\ Emitted[at + 1][1].label = BottomLabel(k)
        /\ NamesRowWith(Emitted[at + 1], k, min)
        /\ Emitted[at + 1][1].color = IF min < 0 THEN "red" ELSE "black"

\* C5: for each of '% to Asp' and 'YoY' present in a non-empty table, process
\* emits, in this order, a top insight naming the Country and value of a row
\* holding the column maximum (green if >= 0 else red) and a bottom insight
\* naming those of a row holding the minimum (red if < 0 else black).
C5_Extremes ==
    \A k \in {"asp", "yoy"} :
        (Finished /\ SheetRead /\ NRows > 0 /\ HasKey(k)) => ExtremesAsClaimed(k)

\* the extremes are as claimed whenever process returns
ExtremesWhenReturned ==
    \A k \in {"asp", "yoy"} :
        (pc = "returned" /\ SheetRead /\ NRows > 0 /\ HasKey(k)) =>
            ExtremesAsClaimed(k)

\* C6: with the Target or the Actual column absent, process raises nothing,
\* emits no total-comparison insight, still emits the extremes of every
\* '% to Asp' / 'YoY' column present, and still adds the table slide.
C6_MissingTargetOrActual ==
    (Finished /\ SheetRead /\ ~(HasKey("target") /\ HasKey("actual"))) =>
        /\ pc = "returned"
        /\ Len(deck) = 1 /\ deck[1].kind = "table"
        /\ \A i \in 1..Len(Emitted) : ~IsTotalLine(Emitted[i])
        /\ \A k \in {"asp", "yoy"} :
              (HasKey(k) /\ NRows > 0) => ExtremesAsClaimed(k)

\* every cell of column k of the sheet is missing
WhollyMissing(k) ==
    \A r \in 1..NRows :
        Sheet.rows[r][CHOOSE i \in 1..Len(Sheet.cols) :
                         Sheet.cols[i] = RawHeader(k)] = NullCell

\* C7: when every cell of the '% to Asp' (or 'YoY') column is missing in the
\* input table, process emits no top or bottom insight for that column.
C7_WhollyMissingSkipped ==
    \A k \in {"asp", "yoy"} :
        (Finished /\ SheetRead /\ HasKey(k) /\ WhollyMissing(k)) =>
            \A i \in 1..Len(Emitted) :
                Emitted[i][1].label \notin {TopLabel(k), BottomLabel(k)}

TextualHeaders == \A i \in 1..Len(Sheet.cols) : Sheet.cols[i].kind = "text"

\* C8: process raises for no combination of present and absent columns, in
\* particular not for a non-empty table with '% to Asp' or 'YoY' and no
\* Country column.
C8_NeverRaises ==
    (SheetRead /\ TextualHeaders) => pc # "raised"

\* the first row, in input order, holding the maximum of column k
FirstMaxRow(k) ==
    CHOOSE r \in 1..NRows :
        /\ \A q \in 1..NRows : KeyNumbers(k)[q] <= KeyNumbers(k)[r]
        /\ \A q \in 1..(r - 1) : KeyNumbers(k)[q] < KeyNumbers(k)[r]

\* the last row, in input order, holding the minimum of column k
LastMinRow(k) ==
    CHOOSE r \in 1..NRows :
        /\ \A q \in 1..NRows : KeyNumbers(k)[r] <= KeyNumbers(k)[q]
        /\ \A q \in (r + 1)..NRows : KeyNumbers(k)[r] < KeyNumbers(k)[q]

\* the Country cell of row r of the enumerated sheets
CountryOfRow(r) == TextCell(<<UpperChars[r]>>)

\* the top and bottom insights of column k name the rows a stable descending
\* sort puts first and last
NamesStableExtremes(k) ==
    /\ Len(Emitted) >= TopPosition(k) + 1
    /\ Emitted[TopPosition(k)][1].who = <<CountryOfRow(FirstMaxRow(k))>>
    /\ Emitted[TopPosition(k) + 1][1].who = <<CountryOfRow(LastMinRow(k))>>
    /\ NRows = 1 =>
          Emitted[TopPosition(k)][1].who = Emitted[TopPosition(k) + 1][1].who

\* C11: ties in the extremes follow a stable descending sort: of the rows
\* sharing the maximum of the sorted column the top insight names the first
\* in input order, of the rows sharing the minimum the bottom insight names
\* the last in input order, and a one-row table has the same row named twice.
C11_TieBreakStable ==
    \A k \in {"asp", "yoy"} :
        (pc = "returned" /\ SheetRead /\ NRows > 0 /\ HasKey(k)
            /\ HasKey("country")) => NamesStableExtremes(k)

\* the ties are broken that way in every sheet short enough for the default
\* sort to be a single insertion sort
TieBreakStableWhenShort ==
    \A k \in {"asp", "yoy"} :
        (pc = "returned" /\ SheetRead /\ NRows > 0 /\ HasKey(k)
            /\ HasKey("country") /\ NRows <= SMALL_QUICKSORT + 1) =>
                NamesStableExtremes(k)

(***************************************************************************)
(* Properties of generate (SpecGenerate)                                   *)
(***************************************************************************)
\* folder i holds a workbook that exists and that pd.read_excel rejects
Unreadable(i) == root[i].name = "slide2" /\ root[i].excel = "unreadable"

\* the loop is past folder i
Done(i) == i < idx

\* the handlers run for folder i, in order
Entries(i) == SelectSeq(log, LAMBDA e : e.folder = i)

\* the slides between the first and the last handler of a folder
SlidesBetween(es) ==
    IF es = <<>> THEN <<>> ELSE SubSeq(deck, es[1].from + 1, es[Len(es)].to)

\* the slides the deck holds for folder i
FolderSlides(i) == SlidesBetween(Entries(i))

\* the title slide that reports the failed read
Placeholder(f) == TitleSlide(<<FolderTitle(f), " (failed to read Excel)">>)

\* the slides of a folder whose handler gave h: the handler's, followed by
\* the generic processor's when the handler raised
WithFallback(h, f) ==
    IF h.raised THEN process_generic_folder(h.deck, f) ELSE h.deck

\* the slides generate gives folder f when f is the only folder
UsualSlides(f) ==
    WithFallback(IF f.name = "slide2" THEN Process(<<>>, f)
                 ELSE IF f.name = "slide1" THEN Slide1Process(<<>>, f, platform)
                 ELSE [raised |-> TRUE, deck |-> <<>>], f)

\* slide2.process ran once for folder i and returned
ReturnedOnce(es) ==
    /\ Len(es) = 1
    /\ es[1].handler = "slide2"
    /\ ~es[1].raised

\* every folder other than i that the loop is past has its usual slides
OthersAsUsual(i) ==
    \A j \in 1..Len(root) :
        j # i /\ Done(j) => FolderSlides(j) = UsualSlides(root[j])

\* C9 (as amended): when a slide folder's workbook exists but cannot be read,
\* slide2.process adds exactly one slide for that folder, a title slide
\* titled '<title> (failed to read Excel)', and no table slide; it returns
\* without raising (so the generic processor does not run for the folder),
\* and the slides of every other folder are generated as usual.
C9_UnreadableWorkbookPlaceholder ==
    \A i \in 1..Len(root) :
        Unreadable(i) /\ Done(i) =>
            /\ ReturnedOnce(Entries(i))
            /\ FolderSlides(i) = <<Placeholder(root[i])>>
            /\ OthersAsUsual(i)

\* a finished run with an unreadable workbook between two other folders,
\* its placeholder in the deck and the next folder's slides after it
C9_Witness ==
    /\ pc = "done"
    /\ saved
    /\ \E i \in 2..(Len(root) - 1) :
          /\ Unreadable(i)
          /\ FolderSlides(i) = <<Placeholder(root[i])>>
          /\ FolderSlides(i - 1) # <<>>
          /\ Len(FolderSlides(i + 1)) >= 2

\* C9 (as stated): an unreadable workbook leaves no slide in the deck for its
\* folder, slide2.process returns without raising, and the slides of every
\* other folder are generated as usual.
C9_UnreadableWorkbookNoSlide ==
    \A i \in 1..Len(root) :
        Unreadable(i) /\ Done(i) =>
            /\ ReturnedOnce(Entries(i))
            /\ FolderSlides(i) = <<>>
            /\ OthersAsUsual(i)

\* the handlers generate ran for a folder of this name are as claimed: the
\* slide-specific handler alone when it returned, the slide-specific handler
\* and then the generic processor when it raised, the generic processor
\* alone for any other folder
HandlersAsClaimed(name, es) ==
    IF name \in {"slide1", "slide2"}
    THEN \/ Len(es) = 1 /\ es[1].handler = name /\ ~es[1].raised
         \/ /\ Len(es) = 2
            /\ es[1].handler = name /\ es[1].raised
            /\ es[2].handler = "generic" /\ ~es[2].raised
    ELSE Len(es) = 1 /\ es[1].handler = "generic" /\ ~es[1].raised

\* the handlers ran folder by folder, in the sorted order of the names
VisitedInNameOrder ==
    \A a \in 1..Len(log) : \A b \in (a + 1)..Len(log) :
        \/ log[a].folder = log[b].folder
        \/ NameRank(root[log[a].folder].name) < NameRank(root[log[b].folder].name)

\* what has happened so far in a run of generate is as claimed
VisitsAsClaimed ==
    /\ pc \in {"start", "loop", "generic", "done"}
    /\ VisitedInNameOrder
    /\ \A i \in 1..Len(root) :
          /\ Done(i) => HandlersAsClaimed(root[i].name, Entries(i))
          /\ ~Done(i) /\ pc # "generic" => Entries(i) = <<>>
    /\ saved <=> pc = "done"
    /\ saved => \A i \in 1..Len(root) : Done(i)

\* C12: generate visits every sub-folder exactly once in sorted name order;
\* an exception of the handler of 'slide2' or 'slide1' is caught and the
\* folder goes to process_generic_folder, which is not run when the handler
\* returned; no exception ends the run, and after the last folder the
\* presentation is saved.
C12_VisitsEveryFolderThenSaves ==
    /\ []VisitsAsClaimed
    /\ (pc = "loop" /\ \A i \in 1..Len(root) : Done(i)) ~> saved

\* a saved run in which one handler raised and its folder went on to the
\* generic processor, and another handler returned
C12_Witness ==
    /\ saved
    /\ \E i, j \in 1..Len(root) :
          /\ Len(Entries(i)) = 2 /\ Entries(i)[1].raised
          /\ root[j].name \in {"slide1", "slide2"}
          /\ Len(Entries(j)) = 1

\* a is an initial part of b
IsPrefix(a, b) == Len(a) <= Len(b) /\ SubSeq(b, 1, Len(a)) = a

\* the slides one handler run added, as the deck holds them now
SlidesOfEntry(e) == SubSeq(deck, e.from + 1, e.to)

\* each handler's slides start where the previous handler's ended, handlers
\* of one folder stand together, and the deck holds nothing else
SlidesInHandlerOrder ==
    /\ log # <<>> => log[1].from = 0 /\ log[Len(log)].to = Len(deck)
    /\ log = <<>> => deck = <<>>
    /\ \A a \in 1..(Len(log) - 1) :
          /\ log[a + 1].from = log[a].to
          /\ log[a].folder <= log[a + 1].folder
    /\ \A a \in 1..Len(log) : log[a].from <= log[a].to

\* a handler that raised left what it had added: slide1.process its designed
\* slide, slide2.process nothing; the generic processor's slides for the
\* same folder follow at once
PartialSlidesKept ==
    \A a \in 1..Len(log) :
        log[a].raised =>
            /\ log[a].handler = "slide1" =>
                  /\ log[a].to = log[a].from + 1
                  /\ SlidesOfEntry(log[a]) = <<BlankSlide("designed", <<>>)>>
            /\ log[a].handler = "slide2" => log[a].to = log[a].from
            /\ a < Len(log) =>
                  /\ log[a + 1].handler = "generic"
                  /\ log[a + 1].folder = log[a].folder
                  /\ SlidesOfEntry(log[a + 1]) =
                        process_generic_folder(<<>>, root[log[a].folder])

\* C13: the deck is append-only, with no rollback: each step of generate
\* leaves the slides already added as an initial part of the deck, so the
\* slides a slide-specific handler added before it raised stay, and the
\* generic fallback's slides for that folder come right after them, before
\* any slide of the next folder.
C13_DeckAppendOnly ==
    /\ [][IsPrefix(deck, deck')]_vars
    /\ [](SlidesInHandlerOrder /\ PartialSlidesKept)

\* a saved run in which slide1.process raised after its designed slide, the
\* generic slides of that folder follow it, and a later folder has slides
C13_Witness ==
    /\ saved
    /\ \E a \in 1..(Len(log) - 2) :
          /\ log[a].handler = "slide1" /\ log[a].raised
          /\ deck[log[a].to].kind = "designed"
          /\ deck[log[a].to + 1].kind = "title"
          /\ log[a + 2].folder > log[a].folder
          /\ log[a + 2].to > log[a + 2].from

====
